---- MODULE Spec2Model ----
(***************************************************************************)
(* A model of gnm-xsd-to-nodejs-classes: processSchema (the schema         *)
(* driver), processNode (the recursive tree transformer), the processors   *)
(* dispatch table, addAllAttributes, executeXPathLookup and generateClasses *)
(* of src/src/index.js, and isEmptyString of src/src/util.js.              *)
(*                                                                         *)
(* JavaScript objects are kept in a heap (a sequence of objects, an object *)
(* being a sequence of key/value entries in insertion order), so that      *)
(* object identity, overwriting of keys and aliasing are visible.  The     *)
(* recursion of processNode is an explicit stack of frames.  The XML       *)
(* parser, the XPath evaluator, the file system and the hygen runner are   *)
(* external: a file is modelled by its text (as far as isEmptyString reads *)
(* it) together with the DOM the parser builds from it.                    *)
(***************************************************************************)
EXTENDS Integers, Sequences, FiniteSets, TLC

(***************************************************************************)
(* Bounds of the model.                                                    *)
(***************************************************************************)
\* The largest number of element nodes below the document element in the
\* generated documents (the named scenario documents are added to these).
MaxNodes == 2

(***************************************************************************)
(* JavaScript values.                                                      *)
(***************************************************************************)
\* A config value: undefined, or a string (a sequence of characters).
Undefined == [type |-> "undefined", chars |-> <<>>]
Str(s) == [type |-> "string", chars |-> s]

\* The characters of the model: a letter, a blank, a tab and the digit zero.
Chars == {"a", " ", "\t", "0"}

\* /\s/ of the regular expressions in isEmptyString.
IsWhitespace(c) == c \in {" ", "\t"}

\* A value held by a key of a context: a string, null, or a reference to
\* another object of the heap.
StrVal(s) == [t |-> "str", s |-> s, id |-> 0]
NullVal == [t |-> "null", s |-> "", id |-> 0]
ObjVal(i) == [t |-> "obj", s |-> "", id |-> i]

(***************************************************************************)
(* Objects: sequences of entries [key, val], keys unique, in insertion     *)
(* order (the order for..in enumerates them).                              *)
(***************************************************************************)
Has(o, k) == \E i \in 1..Len(o) : o[i].key = k

Get(o, k) == (CHOOSE e \in { o[i] : i \in 1..Len(o) } : e.key = k).val

\* The assignment as an append: a second assignment of a key adds an entry.
PutAppended(o, k, v) == Append(o, [key |-> k, val |-> v])

\* o[k] = v : overwrite in place when the key exists, append otherwise.
Put(o, k, v) ==
    IF Has(o, k)
    THEN [ i \in 1..Len(o) |-> IF o[i].key = k THEN [key |-> k, val |-> v] ELSE o[i] ]
    ELSE Append(o, [key |-> k, val |-> v])

(***************************************************************************)
(* const.js                                                                *)
(***************************************************************************)
XML_SCHEMA_NS == "http://www.w3.org/2001/XMLSchema"

(***************************************************************************)
(* util.js                                                                 *)
(***************************************************************************)
\* x.replace(/\s/g, "")
StripWhitespace(s) == SelectSeq(s, LAMBDA c : ~IsWhitespace(c))

\* The string with leading and trailing white space removed, as ToNumber
\* reads a string.
TrimString(s) ==
    LET nonWs == { i \in 1..Len(s) : ~IsWhitespace(s[i]) }
    IN  IF nonWs = {} THEN <<>>
        ELSE SubSeq(s, CHOOSE i \in nonWs : \A j \in nonWs : i <= j,
                       CHOOSE i \in nonWs : \A j \in nonWs : j <= i)

\* x == false for a string x: ToNumber(x) is 0, that is, the trimmed string is
\* empty or a numeral of value zero (over Chars: one or more zeros).
LooseEqualsFalse(s) ==
    LET t == TrimString(s) IN \A i \in 1..Len(t) : t[i] = "0"

isEmptyString(x) ==
    \/ x.type # "string"                                       \* typeof x != 'string'
    \/ x.type \in {"undefined", "null"}                         \* x == null
    \/ LooseEqualsFalse(x.chars)                                \* x == false
    \/ Len(x.chars) = 0                                         \* x.length == 0
    \/ x.chars = <<>>                                           \* x == ""
    \/ StripWhitespace(x.chars) = <<>>                          \* x.replace(/\s/g,"") == ""
    \/ ~ \E i \in 1..Len(x.chars) : ~IsWhitespace(x.chars[i])   \* !/[^\s]/.test(x)
    \/ \A i \in 1..Len(x.chars) : IsWhitespace(x.chars[i])      \* /^\s*$/.test(x)

(***************************************************************************)
(* The DOM the parser builds.  A document is a sequence of element nodes   *)
(* in document order; node 1 is the document element, the parent of every  *)
(* other node is an earlier node.  A node has a local name, its attributes *)
(* in document order, and, when its first child node is a text node, that  *)
(* text.                                                                   *)
(***************************************************************************)
Attr(n, v) == [name |-> n, value |-> v]

NoText == [present |-> FALSE, value |-> ""]
Text(v) == [present |-> TRUE, value |-> v]

Tmpl(ln, as, tx) == [localName |-> ln, attrs |-> as, text |-> tx]

\* The element nodes the generated documents are built from.
Templates ==
    { Tmpl("element", <<Attr("name", "Foo"), Attr("type", "xs:string")>>, NoText),
      Tmpl("element", <<Attr("ref", "Baz")>>, NoText),
      Tmpl("element", <<Attr("name", "Foo"), Attr("ref", "Baz")>>, NoText),
      Tmpl("complexType", <<Attr("name", "Bar")>>, NoText),
      Tmpl("complexType", <<Attr("name", "Bar"), Attr("ref", "Baz")>>, NoText),
      Tmpl("complexType", <<>>, NoText),
      Tmpl("simpleType", <<Attr("name", "Foo"), Attr("ref", "Baz")>>, NoText),
      Tmpl("attribute", <<Attr("name", "Foo"), Attr("ref", "Baz")>>, NoText),
      Tmpl("attribute", <<Attr("name", "base")>>, NoText),
      Tmpl("extension", <<Attr("base", "Bar")>>, NoText),
      Tmpl("documentation", <<>>, Text("about")),
      Tmpl("documentation", <<>>, NoText),
      Tmpl("sequence", <<>>, NoText),
      Tmpl("key", <<Attr("name", "k")>>, Text("ws")) }

\* The document elements of the generated documents.
RootTemplates ==
    { Tmpl("schema", <<>>, NoText),
      Tmpl("schema", <<Attr("targetNamespace", "urn:t")>>, NoText) }

Node(t, p) ==
    [localName |-> t.localName, attrs |-> t.attrs, text |-> t.text, parent |-> p]

\* The nodes from j up to the document element.
RECURSIVE AncestorsOrSelf(_, _)
AncestorsOrSelf(p, j) == IF j = 0 THEN {} ELSE {j} \cup AncestorsOrSelf(p, p[j])

\* The parent functions of the documents of n nodes in document order.
ParentFns(n) ==
    { p \in [1..n -> 0..n] :
        /\ p[1] = 0
        /\ \A i \in 2..n : p[i] \in AncestorsOrSelf(p, i - 1) }

Doc(ns, nodes) == [rootNS |-> ns, nodes |-> nodes]

GeneratedDocs ==
    UNION { { Doc(XML_SCHEMA_NS,
                  [ i \in 1..(n + 1) |->
                      Node(IF i = 1 THEN r ELSE t[i - 1], p[i]) ]) :
                r \in RootTemplates, t \in [1..n -> Templates], p \in ParentFns(n + 1) } :
            n \in 0..MaxNodes }

\* <xs:schema><xs:element name="Foo" type="xs:string"/></xs:schema>
FooDoc ==
    Doc(XML_SCHEMA_NS,
        << Node(Tmpl("schema", <<>>, NoText), 0),
           Node(Tmpl("element", <<Attr("name", "Foo"), Attr("type", "xs:string")>>, NoText), 1) >>)

\* <xs:schema><xs:complexType name="Bar"><xs:sequence>
\*   <xs:element ref="Baz"/><xs:element ref="Qux"/>
\* </xs:sequence></xs:complexType></xs:schema>
BarDoc ==
    Doc(XML_SCHEMA_NS,
        << Node(Tmpl("schema", <<>>, NoText), 0),
           Node(Tmpl("complexType", <<Attr("name", "Bar")>>, NoText), 1),
           Node(Tmpl("sequence", <<>>, NoText), 2),
           Node(Tmpl("element", <<Attr("ref", "Baz")>>, NoText), 3),
           Node(Tmpl("element", <<Attr("ref", "Qux")>>, NoText), 3) >>)

\* <xs:schema><xs:documentation>about<xs:documentation>more</xs:documentation>
\* </xs:documentation></xs:schema>
NestedDocumentationDoc ==
    Doc(XML_SCHEMA_NS,
        << Node(Tmpl("schema", <<>>, NoText), 0),
           Node(Tmpl("documentation", <<>>, Text("about")), 1),
           Node(Tmpl("documentation", <<>>, Text("more")), 2) >>)

\* A document whose document element is not a schema element of the XML
\* Schema namespace.
OtherNS == "urn:other"

NoSchemaDocs ==
    { Doc(OtherNS, << Node(Tmpl("schema", <<>>, NoText), 0),
                      Node(Tmpl("element", <<Attr("name", "Foo")>>, NoText), 1) >>),
      Doc(XML_SCHEMA_NS, << Node(Tmpl("html", <<Attr("lang", "en")>>, NoText), 0) >>) }

\* childNodes.length > 0, childNodes[0].nodeValue
HasElementChild(d, n) == \E i \in 1..Len(d.nodes) : d.nodes[i].parent = n

ChildNodesLength(d, n) ==
    IF d.nodes[n].text.present \/ HasElementChild(d, n) THEN 1 ELSE 0

FirstChildNodeValue(d, n) ==
    IF d.nodes[n].text.present THEN StrVal(d.nodes[n].text.value) ELSE NullVal

\* node.getAttribute(a): the value, or "" when the node has no such attribute.
getAttribute(d, n, a) ==
    LET as == d.nodes[n].attrs
        hit == { i \in 1..Len(as) : as[i].name = a }
    IN  IF hit = {} THEN "" ELSE as[CHOOSE i \in hit : \A j \in hit : i <= j].value

\* a || b on strings: the empty string is falsy.
OrElse(a, b) == IF a # "" THEN a ELSE b

\* The element children in reverse document order.
ChildrenReversed(d, n) ==
    LET c == SelectSeq([ i \in 1..Len(d.nodes) |-> i ], LAMBDA i : d.nodes[i].parent = n)
    IN  [ i \in 1..Len(c) |-> c[Len(c) + 1 - i] ]

\* executeXPathLookup(options, node, "child::*"): the element children of a
\* node, in document order.
Children(d, n) ==
    SelectSeq([ i \in 1..Len(d.nodes) |-> i ], LAMBDA i : d.nodes[i].parent = n)

(***************************************************************************)
(* The files processSchema may be pointed at: what readFileSync does with  *)
(* the path, the text as isEmptyString reads it, and what the parser makes *)
(* of the text.  The text of an XML document is represented by one letter. *)
(***************************************************************************)
NoDom == Doc("", <<>>)

XmlFile(d) == [readable |-> TRUE, chars |-> <<"a">>, wellFormed |-> TRUE, dom |-> d]
MalformedFile == [readable |-> TRUE, chars |-> <<"a">>, wellFormed |-> FALSE, dom |-> NoDom]
TextFile(cs) == [readable |-> TRUE, chars |-> cs, wellFormed |-> FALSE, dom |-> NoDom]
MissingFile == [readable |-> FALSE, chars |-> <<>>, wellFormed |-> FALSE, dom |-> NoDom]

(***************************************************************************)
(* The history of a run: the calls and assignments in the order they are   *)
(* made.                                                                   *)
(*   read       fs.readFileSync                                            *)
(*   parse      DOMParser.parseFromString                                  *)
(*   transform  processNode called by processSchema                        *)
(*   enter      processNode entered (node, obj)                            *)
(*   exit       processNode returns (node, obj)                            *)
(*   pre, post  a hook of the dispatch table invoked (node, obj; val is    *)
(*              what it returned)                                          *)
(*   set        obj[key] = val (had: the key existed; by: attr or pre)     *)
(*   emit       hygen.runner started with --name key                       *)
(***************************************************************************)
Ev(e, n, o, k, v, h, b) ==
    [ev |-> e, node |-> n, obj |-> o, key |-> k, val |-> v, had |-> h, by |-> b]

Call(e, n, o) == Ev(e, n, o, "", NullVal, FALSE, "")

Set(h, n, o, k, v, b) == Ev("set", n, o, k, v, Has(h[o], k), b)

\* obj[k] = v in heap h.
Assign(h, o, k, v) == [h EXCEPT ![o] = Put(@, k, v)]

(***************************************************************************)
(* executeXPathLookup: the namespace bindings                              *)
(***************************************************************************)
\* The bindings without line 237: only what the config holds.
NamespacesUnbound(o) == IF o.namespaces.defined THEN o.namespaces.map ELSE <<>>

\* let ns = options.namespaces || {}; ns.xs = CONST.XML_SCHEMA_NS;
\* the bindings the queries resolve prefixes with.
Namespaces(o) ==
    Put(IF o.namespaces.defined THEN o.namespaces.map ELSE <<>>, "xs", XML_SCHEMA_NS)

\* The caller's options after the assignment above: ns is the caller's own
\* namespaces object when one was supplied.
BindXs(o) ==
    IF o.namespaces.defined
    THEN [o EXCEPT !.namespaces.map = Put(@, "xs", XML_SCHEMA_NS)]
    ELSE o

\* The properties every object literal inherits from Object.prototype (two of
\* them): ns[prefix] finds them when ns has no key of its own of that name.
ObjectPrototypeKeys == {"constructor", "toString"}

\* An inherited method, as a value.
FunctionVal == [t |-> "function", s |-> "", id |-> 0]

\* lookupNamespaceURI: (prefix) => ns[prefix] || null
lookupNamespaceURI(ns, prefix) ==
    IF Has(ns, prefix)
    THEN IF Get(ns, prefix) # "" THEN StrVal(Get(ns, prefix)) ELSE NullVal
    ELSE IF prefix \in ObjectPrototypeKeys THEN FunctionVal ELSE NullVal

\* The query matching a schema document element of any namespace.
SchemaRootsAnyNS(d, ns) ==
    IF Len(d.nodes) >= 1 /\ d.nodes[1].localName = "schema" THEN <<1>> ELSE <<>>

\* executeXPathLookup(options, doc, "/xs:schema"): the document element when
\* it is a schema element of the namespace xs resolves to.
SchemaRoots(d, ns) ==
    IF /\ Len(d.nodes) >= 1
       /\ d.nodes[1].localName = "schema"
       /\ lookupNamespaceURI(ns, "xs") = StrVal(d.rootNS)
    THEN <<1>> ELSE <<>>

(***************************************************************************)
(* addAllAttributes                                                        *)
(***************************************************************************)
NoArray == [isArray |-> FALSE, items |-> {}]
Array(S) == [isArray |-> TRUE, items |-> S]

\* The test without the suppression list: every attribute is copied.
CopiedAlways(exceptions, localName) == TRUE

\* !exceptions || !Array.isArray(exceptions) || !exceptions.includes(localName)
Copied(exceptions, localName) ==
    \/ ~exceptions.isArray
    \/ localName \notin exceptions.items

\* The heap and the assignments made after copying the attributes from the
\* i-th on.
RECURSIVE CopyAttributes(_, _, _, _, _, _)
CopyAttributes(r, obj, d, n, exceptions, i) ==
    LET as == d.nodes[n].attrs IN
    IF i > Len(as) THEN r
    ELSE IF Copied(exceptions, as[i].name)
         THEN CopyAttributes(
                [heap |-> Assign(r.heap, obj, as[i].name, StrVal(as[i].value)),
                 events |-> Append(r.events,
                                   Set(r.heap, n, obj, as[i].name, StrVal(as[i].value), "attr"))],
                obj, d, n, exceptions, i + 1)
         ELSE CopyAttributes(r, obj, d, n, exceptions, i + 1)

addAllAttributes(h, obj, d, n, exceptions) ==
    CopyAttributes([heap |-> h, events |-> <<>>], obj, d, n, exceptions, 1)

(***************************************************************************)
(* processors: the dispatch table.  A pre hook yields the heap after it,   *)
(* the object it returns and the assignments it made.                      *)
(***************************************************************************)
\* The hook keeping the context the key already holds: obj[name] = obj[name] || {}.
NewContextKept(h, obj, n, name) ==
    IF Has(h[obj], name) /\ Get(h[obj], name).t = "obj"
    THEN [heap |-> h,
          ret |-> Get(h[obj], name).id,
          events |-> << Set(h, n, obj, name, Get(h[obj], name), "pre") >>]
    ELSE LET id == Len(h) + 1 IN
         [heap |-> Assign(Append(h, <<>>), obj, name, ObjVal(id)),
          ret |-> id,
          events |-> << Set(h, n, obj, name, ObjVal(id), "pre") >>]

\* obj[name] = {}; return obj[name];
NewContext(h, obj, n, name) ==
    LET id == Len(h) + 1 IN
    [heap |-> Assign(Append(h, <<>>), obj, name, ObjVal(id)),
     ret |-> id,
     events |-> << Set(h, n, obj, name, ObjVal(id), "pre") >>]

\* The hook without the fallback to ref.
element_preNameOnly(h, obj, d, n) ==
    NewContext(h, obj, n, getAttribute(d, n, "name"))

element_pre(h, obj, d, n) ==
    NewContext(h, obj, n, OrElse(getAttribute(d, n, "name"), getAttribute(d, n, "ref")))

\* The hook skipping a node that has neither name nor ref.
complexType_preSkipsAnonymous(h, obj, d, n) ==
    IF OrElse(getAttribute(d, n, "name"), getAttribute(d, n, "ref")) = ""
    THEN [heap |-> h, ret |-> obj, events |-> <<>>]
    ELSE NewContext(h, obj, n, OrElse(getAttribute(d, n, "name"), getAttribute(d, n, "ref")))

complexType_pre(h, obj, d, n) ==
    NewContext(h, obj, n, OrElse(getAttribute(d, n, "name"), getAttribute(d, n, "ref")))

simpleType_pre(h, obj, d, n) ==
    NewContext(h, obj, n, OrElse(getAttribute(d, n, "name"), getAttribute(d, n, "ref")))

\* The hook with the precedence of the other three: name before ref.
attribute_preNameFirst(h, obj, d, n) ==
    NewContext(h, obj, n, OrElse(getAttribute(d, n, "name"), getAttribute(d, n, "ref")))

attribute_pre(h, obj, d, n) ==
    NewContext(h, obj, n, OrElse(getAttribute(d, n, "ref"), getAttribute(d, n, "name")))

\* The hook returning the current context instead of obj.properties.
extension_preReturnsObj(h, obj, d, n) ==
    LET base == StrVal(getAttribute(d, n, "base"))
        h1 == Assign(h, obj, "base", base)
        id == Len(h1) + 1
    IN  [heap |-> Assign(Append(h1, <<>>), obj, "properties", ObjVal(id)),
         ret |-> obj,
         events |-> << Set(h, n, obj, "base", base, "pre"),
                       Set(h1, n, obj, "properties", ObjVal(id), "pre") >>]

extension_pre(h, obj, d, n) ==
    LET base == StrVal(getAttribute(d, n, "base"))
        h1 == Assign(h, obj, "base", base)
        id == Len(h1) + 1
    IN  [heap |-> Assign(Append(h1, <<>>), obj, "properties", ObjVal(id)),
         ret |-> id,
         events |-> << Set(h, n, obj, "base", base, "pre"),
                       Set(h1, n, obj, "properties", ObjVal(id), "pre") >>]

\* The hook writing the text under the key documentation.
documentation_preOwnKey(h, obj, d, n) ==
    IF ChildNodesLength(d, n) > 0
    THEN [heap |-> Assign(h, obj, "documentation", FirstChildNodeValue(d, n)),
          ret |-> obj,
          events |-> << Set(h, n, obj, "documentation", FirstChildNodeValue(d, n), "pre") >>]
    ELSE [heap |-> h, ret |-> obj, events |-> <<>>]

documentation_pre(h, obj, d, n) ==
    IF ChildNodesLength(d, n) > 0
    THEN [heap |-> Assign(h, obj, "comment", FirstChildNodeValue(d, n)),
          ret |-> obj,
          events |-> << Set(h, n, obj, "comment", FirstChildNodeValue(d, n), "pre") >>]
    ELSE [heap |-> h, ret |-> obj, events |-> <<>>]

\* The local names that have a rule.
RuleNames ==
    {"element", "complexType", "simpleType", "extension", "attribute", "documentation"}

\* processors[localName]: pre and post name the hook ("undefined": none).
processors(localName) ==
    CASE localName \in {"element", "complexType", "simpleType", "attribute"} ->
            [pre |-> localName, post |-> "undefined", ignoreAttrs |-> Array({"name", "ref"})]
      [] localName = "extension" ->
            [pre |-> localName, post |-> "undefined", ignoreAttrs |-> Array({"base"})]
      [] localName = "documentation" ->
            [pre |-> localName, post |-> "undefined", ignoreAttrs |-> NoArray]

\* preProcessor(options, obj, node)
CallPre(hook, h, obj, d, n) ==
    CASE hook = "element" -> element_pre(h, obj, d, n)
      [] hook = "complexType" -> complexType_pre(h, obj, d, n)
      [] hook = "simpleType" -> simpleType_pre(h, obj, d, n)
      [] hook = "attribute" -> attribute_pre(h, obj, d, n)
      [] hook = "extension" -> extension_pre(h, obj, d, n)
      [] hook = "documentation" -> documentation_pre(h, obj, d, n)

(***************************************************************************)
(* The state.                                                              *)
(***************************************************************************)
VARIABLES
    options,     \* the caller's config object: schemaURL, schemaFile, namespaces
    file,        \* the file options.schemaFile names
    pc,          \* where processSchema is
    xmlString,   \* processSchema's xmlString
    doc,         \* the parsed document
    results,     \* the matches of "/xs:schema" not yet iterated
    heap,        \* the objects: heap[1] is schema, heap[2] is schema.elements
    stack,       \* the frames of processNode, the innermost last
    emissions,   \* the hygen.runner calls started, in order
    outcome,     \* what processSchema returned or threw
    trace        \* the history of the run

vars == <<options, file, pc, xmlString, doc, results, heap, stack, emissions, outcome, trace>>

Pending == [kind |-> "pending", message |-> ""]
Returned == [kind |-> "returned", message |-> "true"]
Threw(k, m) == [kind |-> k, message |-> m]

BOTH_MESSAGE == "Cannot specify both schemaURL and schemaFile"
MISSING_MESSAGE == "Must specify either schemaURL or schemaFile"

\* The ids of schema and of schema.elements in the heap.
SchemaObj == 1
ElementsObj == 2

(***************************************************************************)
(* The inputs.                                                             *)
(***************************************************************************)
NoNamespaces == [defined |-> FALSE, map |-> <<>>]
UserNamespaces(m) == [defined |-> TRUE, map |-> m]

NamespaceChoices ==
    { NoNamespaces,
      UserNamespaces(<<>>),
      UserNamespaces(<< [key |-> "xs", val |-> OtherNS] >>),
      UserNamespaces(<< [key |-> "p", val |-> "urn:p"] >>) }

URLChoices == { Undefined, Str(<<>>), Str(<<"a">>) }

FileNameChoices == { Undefined, Str(<<" ">>), Str(<<"0">>), Str(<<"a">>) }

FileChoices ==
    { MissingFile, TextFile(<<>>), TextFile(<<" ", "\t">>), TextFile(<<"0">>),
      MalformedFile, XmlFile(FooDoc), XmlFile(BarDoc), XmlFile(NestedDocumentationDoc) }
    \cup { XmlFile(d) : d \in NoSchemaDocs }

Options(u, f, n) == [schemaURL |-> u, schemaFile |-> f, namespaces |-> n]

\* Every config with a few files, and the plain config { schemaFile } with
\* every generated document.
Inputs ==
    { [options |-> Options(u, f, n), file |-> c] :
        u \in URLChoices, f \in FileNameChoices, n \in NamespaceChoices, c \in FileChoices }
    \cup
    { [options |-> Options(Undefined, Str(<<"a">>), NoNamespaces), file |-> XmlFile(d)] :
        d \in GeneratedDocs }

Init ==
    /\ \E i \in Inputs : options = i.options /\ file = i.file
    /\ pc = "start"
    /\ xmlString = Undefined
    /\ doc = NoDom
    /\ results = <<>>
    /\ heap = <<>>
    /\ stack = <<>>
    /\ emissions = <<>>
    /\ outcome = Pending
    /\ trace = <<>>

(***************************************************************************)
(* processSchema                                                           *)
(***************************************************************************)
\* Lines 59-70: xmlString after the two source branches, or what is thrown.
\* The schemaURL branch is empty: it leaves xmlString undefined.
ReadSource(o, f) ==
    LET afterURL == Undefined IN
    IF ~isEmptyString(o.schemaFile)
    THEN IF ~isEmptyString(afterURL)
         THEN [threw |-> TRUE, error |-> Threw("Exception", BOTH_MESSAGE),
               xmlString |-> afterURL, events |-> <<>>]
         ELSE IF f.readable
              THEN [threw |-> FALSE, error |-> Pending,
                    xmlString |-> Str(f.chars), events |-> << Call("read", 0, 0) >>]
              ELSE [threw |-> TRUE, error |-> Threw("Error", "ENOENT"),
                    xmlString |-> afterURL, events |-> << Call("read", 0, 0) >>]
    ELSE [threw |-> FALSE, error |-> Pending, xmlString |-> afterURL, events |-> <<>>]

LoadSchema ==
    /\ pc = "start"
    /\ LET r == ReadSource(options, file) IN
        /\ xmlString' = r.xmlString
        /\ trace' = trace \o r.events
        /\ pc' = IF r.threw THEN "threw" ELSE "loaded"
        /\ outcome' = IF r.threw THEN r.error ELSE outcome
    /\ UNCHANGED <<options, file, doc, results, heap, stack, emissions>>

\* Lines 72-74 without the check: the driver goes on with whatever it has.
RequireSourceUnchecked ==
    /\ pc = "loaded"
    /\ pc' = "parse"
    /\ UNCHANGED <<options, file, xmlString, doc, results, heap, stack, emissions, outcome,
                   trace>>

\* Lines 72-74.
RequireSource ==
    /\ pc = "loaded"
    /\ IF isEmptyString(xmlString)
       THEN pc' = "threw" /\ outcome' = Threw("Exception", MISSING_MESSAGE)
       ELSE pc' = "parse" /\ outcome' = outcome
    /\ UNCHANGED <<options, file, xmlString, doc, results, heap, stack, emissions, trace>>

\* Lines 76-79.  What the parser does with text that is not well-formed is
\* the parser's business: it throws, or it builds a document without a
\* document element.
ParseDocument ==
    /\ pc = "parse"
    /\ options' = BindXs(options)
    /\ trace' = Append(trace, Call("parse", 0, 0))
    /\ IF file.wellFormed
       THEN doc' = file.dom /\ pc' = "find" /\ outcome' = outcome
       ELSE \/ doc' = NoDom /\ pc' = "find" /\ outcome' = outcome
            \/ doc' = doc /\ pc' = "threw" /\ outcome' = Threw("ParseError", "")
    /\ UNCHANGED <<file, xmlString, results, heap, stack, emissions>>

\* Lines 81-84.
FindSchema ==
    /\ pc = "find"
    /\ options' = BindXs(options)
    /\ results' = SchemaRoots(doc, Namespaces(options))
    /\ heap' = << << [key |-> "elements", val |-> ObjVal(ElementsObj)] >>, <<>> >>
    /\ pc' = "roots"
    /\ UNCHANGED <<file, xmlString, doc, stack, emissions, outcome, trace>>

Frame(obj, n, ignoreAttrs) ==
    [obj |-> obj, xmlNode |-> n, ignoreAttrs |-> ignoreAttrs, pc |-> "enter", kids |-> <<>>,
     preProcessor |-> "undefined", postProcessor |-> "undefined",
     nextIgnoreAttrs |-> NoArray, newObj |-> 0]

\* Lines 85-86: processNode(options, schema.elements, schemaNode).
TransformRoot ==
    /\ pc = "roots"
    /\ results # <<>>
    /\ stack' = << Frame(ElementsObj, Head(results), NoArray) >>
    /\ results' = Tail(results)
    /\ trace' = Append(trace, Call("transform", Head(results), ElementsObj))
    /\ pc' = "walk"
    /\ UNCHANGED <<options, file, xmlString, doc, heap, emissions, outcome>>

(***************************************************************************)
(* processNode                                                             *)
(***************************************************************************)
Top == stack[Len(stack)]

SetTop(f) == [stack EXCEPT ![Len(stack)] = f]

\* processNode removing from the node the attributes it has copied.
EnterNodeDetaching ==
    /\ pc = "walk"
    /\ Top.pc = "enter"
    /\ LET f == Top
           r == addAllAttributes(heap, f.obj, doc, f.xmlNode, f.ignoreAttrs)
       IN  /\ heap' = r.heap
           /\ trace' = (trace \o << Call("enter", f.xmlNode, f.obj) >>) \o r.events
           /\ stack' = SetTop([f EXCEPT !.pc = "loop", !.kids = Children(doc, f.xmlNode)])
           /\ doc' = [doc EXCEPT !.nodes[f.xmlNode].attrs =
                        SelectSeq(@, LAMBDA a : ~Copied(f.ignoreAttrs, a.name))]
    /\ options' = BindXs(options)
    /\ UNCHANGED <<file, pc, xmlString, results, emissions, outcome>>

\* Lines 115-123: copy the attributes, declare the locals, select the
\* element children.
EnterNode ==
    /\ pc = "walk"
    /\ Top.pc = "enter"
    /\ LET f == Top
           r == addAllAttributes(heap, f.obj, doc, f.xmlNode, f.ignoreAttrs)
       IN  /\ heap' = r.heap
           /\ trace' = (trace \o << Call("enter", f.xmlNode, f.obj) >>) \o r.events
           /\ stack' = SetTop([f EXCEPT !.pc = "loop", !.kids = Children(doc, f.xmlNode)])
    /\ options' = BindXs(options)
    /\ UNCHANGED <<file, pc, xmlString, doc, results, emissions, outcome>>

\* Lines 126-136: the locals after the lookup of the child's rule.  They are
\* declared outside the loop, so a child without a rule leaves them as the
\* previous child left them.
Lookup(f, localName) ==
    IF localName \in RuleNames
    THEN [f EXCEPT !.preProcessor = processors(localName).pre,
                   !.postProcessor = processors(localName).post,
                   !.nextIgnoreAttrs = processors(localName).ignoreAttrs]
    ELSE f

\* The child loop calling processNode with obj whatever the pre hook returned.
DispatchChildIntoOuter ==
    /\ pc = "walk"
    /\ Top.pc = "loop"
    /\ Top.kids # <<>>
    /\ LET node == Head(Top.kids)
           f == Lookup(Top, doc.nodes[node].localName)
           hooked == f.preProcessor # "undefined"
           r == IF hooked
                THEN CallPre(f.preProcessor, heap, f.obj, doc, node)
                ELSE [heap |-> heap, ret |-> f.newObj, events |-> <<>>]
           g == [f EXCEPT !.newObj = r.ret]
       IN  /\ heap' = r.heap
           /\ trace' = IF hooked
                       THEN (trace \o << Ev("pre", node, f.obj, "", ObjVal(r.ret), FALSE, "") >>)
                            \o r.events
                       ELSE trace
           /\ stack' = Append(SetTop(g), Frame(g.obj, node, g.nextIgnoreAttrs))
    /\ UNCHANGED <<options, file, pc, xmlString, doc, results, emissions, outcome>>

\* Lines 125-141: take the next child, look up its rule, run the pre hook and
\* call processNode on the child.
DispatchChild ==
    /\ pc = "walk"
    /\ Top.pc = "loop"
    /\ Top.kids # <<>>
    /\ LET node == Head(Top.kids)
           f == Lookup(Top, doc.nodes[node].localName)
           hooked == f.preProcessor # "undefined"
           r == IF hooked
                THEN CallPre(f.preProcessor, heap, f.obj, doc, node)
                ELSE [heap |-> heap, ret |-> f.newObj, events |-> <<>>]
           g == [f EXCEPT !.newObj = r.ret]
           target == IF g.newObj # 0 THEN g.newObj ELSE g.obj
       IN  /\ heap' = r.heap
           /\ trace' = IF hooked
                       THEN (trace \o << Ev("pre", node, f.obj, "", ObjVal(r.ret), FALSE, "") >>)
                            \o r.events
                       ELSE trace
           /\ stack' = Append(SetTop(g), Frame(target, node, g.nextIgnoreAttrs))
    /\ UNCHANGED <<options, file, pc, xmlString, doc, results, emissions, outcome>>

\* Lines 143-148: the loop is over, processNode returns obj; in the caller the
\* post hook runs and the loop goes on to the next child.
ReturnNode ==
    /\ pc = "walk"
    /\ Top.pc = "loop"
    /\ Top.kids = <<>>
    /\ LET f == Top
           rest == SubSeq(stack, 1, Len(stack) - 1)
           exit == Call("exit", f.xmlNode, f.obj)
       IN  IF rest = <<>>
           THEN /\ stack' = <<>>
                /\ pc' = "roots"
                /\ trace' = Append(trace, exit)
           ELSE LET c == rest[Len(rest)] IN
                /\ stack' = [rest EXCEPT ![Len(rest)] = [c EXCEPT !.kids = Tail(c.kids)]]
                /\ pc' = pc
                /\ trace' = IF c.postProcessor # "undefined"
                            THEN trace \o << exit, Call("post", f.xmlNode, c.obj) >>
                            ELSE Append(trace, exit)
    /\ UNCHANGED <<options, file, xmlString, doc, results, heap, emissions, outcome>>

(***************************************************************************)
(* generateClasses                                                         *)
(***************************************************************************)
\* for (let prop in elements) hygen.runner([..., `--name`, `${prop}`], ...)
\* The runner is asynchronous and is not awaited: each call is only started.
StartedRuns(elements) ==
    [ i \in 1..Len(elements) |-> [name |-> elements[i].key, status |-> "started"] ]

\* generateClasses called without waiting for the loop over the schema roots.
GenerateClassesEarly ==
    /\ pc = "roots"
    /\ emissions' = StartedRuns(heap[ElementsObj])
    /\ trace' = trace \o [ i \in 1..Len(heap[ElementsObj]) |->
                             Ev("emit", 0, ElementsObj, heap[ElementsObj][i].key,
                                NullVal, FALSE, "") ]
    /\ pc' = "generated"
    /\ UNCHANGED <<options, file, xmlString, doc, results, heap, stack, outcome>>

\* Lines 89-90.
GenerateClasses ==
    /\ pc = "roots"
    /\ results = <<>>
    /\ emissions' = StartedRuns(heap[ElementsObj])
    /\ trace' = trace \o [ i \in 1..Len(heap[ElementsObj]) |->
                             Ev("emit", 0, ElementsObj, heap[ElementsObj][i].key,
                                NullVal, FALSE, "") ]
    /\ pc' = "generated"
    /\ UNCHANGED <<options, file, xmlString, doc, results, heap, stack, outcome>>

\* processSchema returning what the emission calls came to.
ReturnTrueAfterEmissions ==
    /\ pc = "generated"
    /\ outcome' = IF \E i \in 1..Len(emissions) : emissions[i].status = "failed"
                  THEN Threw("Error", "emission failed")
                  ELSE Returned
    /\ pc' = "done"
    /\ UNCHANGED <<options, file, xmlString, doc, results, heap, stack, emissions, trace>>

\* Line 91.
ReturnTrue ==
    /\ pc = "generated"
    /\ outcome' = Returned
    /\ pc' = "done"
    /\ UNCHANGED <<options, file, xmlString, doc, results, heap, stack, emissions, trace>>

Next ==
    \/ LoadSchema
    \/ RequireSource
    \/ ParseDocument
    \/ FindSchema
    \/ TransformRoot
    \/ EnterNode
    \/ DispatchChild
    \/ ReturnNode
    \/ GenerateClasses
    \/ ReturnTrue

Spec == Init /\ [][Next]_vars

(***************************************************************************)
(* The emission calls as they go on by themselves.  hygen.runner returns a  *)
(* promise nobody waits for: a call that was started completes or fails at  *)
(* some moment of its own, or never.                                        *)
(***************************************************************************)
SettleEmission ==
    /\ pc \in {"generated", "done"}
    /\ \E i \in 1..Len(emissions) : \E s \in {"completed", "failed"} :
          /\ emissions[i].status = "started"
          /\ emissions' = [emissions EXCEPT ![i].status = s]
    /\ UNCHANGED <<options, file, pc, xmlString, doc, results, heap, stack, outcome, trace>>

\* The runs on documents of at most MaxNodes element nodes.
AsyncInputs ==
    { i \in Inputs : Len(i.file.dom.nodes) <= MaxNodes }

AsyncInit ==
    /\ \E i \in AsyncInputs : options = i.options /\ file = i.file
    /\ pc = "start"
    /\ xmlString = Undefined
    /\ doc = NoDom
    /\ results = <<>>
    /\ heap = <<>>
    /\ stack = <<>>
    /\ emissions = <<>>
    /\ outcome = Pending
    /\ trace = <<>>

AsyncNext ==
    \/ Next
    \/ SettleEmission

AsyncSpec == AsyncInit /\ [][AsyncNext]_vars

\* processSchema is one synchronous call: a step that can be taken is taken.
FairSpec == Spec /\ WF_vars(Next)

(***************************************************************************)
(* The model as JSON.stringify prints it: an object as the sequence of its *)
(* keys and values, nested objects in place.                               *)
(***************************************************************************)
RECURSIVE Json(_, _)
Json(h, id) ==
    [ i \in 1..Len(h[id]) |->
        IF h[id][i].val.t = "obj"
        THEN << h[id][i].key, Json(h, h[id][i].val.id) >>
        ELSE << h[id][i].key, h[id][i].val >> ]

(***************************************************************************)
(* Vocabulary of the properties.                                           *)
(***************************************************************************)
\* A config value that supplies a source: a string with a character that is
\* not white space.
Supplied(x) == x.type = "string" /\ \E i \in 1..Len(x.chars) : ~IsWhitespace(x.chars[i])

\* A config value that is a non-empty string.
NonEmptyString(x) == x.type = "string" /\ Len(x.chars) > 0

Events == { trace[i] : i \in 1..Len(trace) }

Happened(e) == \E x \in Events : x.ev = e

Finished == pc \in {"done", "threw"}

\* The two exceptions processSchema itself throws about the sources.
IsConfigError(o) ==
    o.kind = "Exception" /\ o.message \in {BOTH_MESSAGE, MISSING_MESSAGE}

HasThrown == outcome.kind \notin {"pending", "returned"}

\* The file is a readable, well-formed document whose document element is a
\* schema element of the XML Schema namespace.
ReadableSchema ==
    /\ file.readable
    /\ file.wellFormed
    /\ Len(file.dom.nodes) >= 1
    /\ file.dom.nodes[1].localName = "schema"
    /\ file.dom.rootNS = XML_SCHEMA_NS

(***************************************************************************)
(* C1 - C5: the sources of the schema                                      *)
(***************************************************************************)
\* C1: with schemaURL and schemaFile both non-empty strings processSchema
\* fails with a ConfigError before any I/O: the file is never read, the
\* transformer never invoked, no emission started.
C1_BothSourcesFailBeforeIO ==
    (NonEmptyString(options.schemaURL) /\ NonEmptyString(options.schemaFile)) =>
        /\ ~Happened("read") /\ ~Happened("transform") /\ ~Happened("emit")
        /\ pc # "done"
        /\ Finished => IsConfigError(outcome)

\* C2: with schemaURL alone processSchema fails with a "not supported"
\* condition that is not the error raised when no source is supplied: it
\* never succeeds and never reports the source as missing.
C2_URLOnlyIsUnsupported ==
    (Supplied(options.schemaURL) /\ options.schemaFile = Undefined) =>
        /\ pc # "done"
        /\ Finished => (HasThrown /\ outcome # Threw("Exception", MISSING_MESSAGE))

\* C3: with neither schemaURL nor schemaFile supplied processSchema fails with
\* a ConfigError, without invoking the transformer or the emission tool.
C3_NoSourceIsConfigError ==
    (~Supplied(options.schemaURL) /\ ~Supplied(options.schemaFile)) =>
        /\ ~Happened("transform") /\ ~Happened("emit")
        /\ pc \in {"start", "loaded", "threw"}
        /\ pc = "threw" => IsConfigError(outcome)

C3_Witness ==
    /\ ~Supplied(options.schemaURL) /\ ~Supplied(options.schemaFile)
    /\ pc = "threw"
    /\ outcome = Threw("Exception", MISSING_MESSAGE)

\* C4: when schemaFile alone names a readable file, processSchema never raises
\* a ConfigError, whatever the text of the file (empty and blank included).
\* Stated for the path "a", a name the driver takes as supplied, so that the
\* text of the file alone decides.
C4_ReadableFileNeverConfigError ==
    (~Supplied(options.schemaURL) /\ options.schemaFile = Str(<<"a">>) /\ file.readable) =>
        ~IsConfigError(outcome)

\* C5: when schemaFile alone names a readable, well-formed XSD with one
\* top-level schema element, processSchema raises no error and returns true,
\* having invoked the transformer exactly once, on the schema root, with a
\* root context that started empty.
C5_SchemaFileSucceeds ==
    (~Supplied(options.schemaURL) /\ Supplied(options.schemaFile) /\ ReadableSchema) =>
        /\ ~HasThrown
        /\ Finished => outcome = Returned
        /\ Finished =>
              Cardinality({ i \in 1..Len(trace) : trace[i].ev = "transform" }) = 1
        /\ \A e \in Events : e.ev = "transform" => e.node = 1 /\ e.obj = ElementsObj
        /\ (pc = "walk" /\ Len(stack) = 1 /\ stack[1].pc = "enter") =>
              heap[ElementsObj] = <<>>

(***************************************************************************)
(* C6 - C10: the shape of the model                                        *)
(***************************************************************************)
Transformed == pc \in {"generated", "done"}

\* C6: the schema whose only content is <element name="Foo" type="xs:string"/>
\* yields exactly { elements: { Foo: { type: "xs:string" } } }.
C6_FooModel ==
    (doc = FooDoc /\ Transformed) =>
        Json(heap, SchemaObj) =
            << <<"elements", << <<"Foo", << <<"type", StrVal("xs:string")>> >> >> >> >> >>

C6_Witness == doc = FooDoc /\ pc = "done" /\ Has(heap[ElementsObj], "Foo")

\* C7: complexType name="Bar" holding a sequence of element ref="Baz" and
\* element ref="Qux" yields { Bar: { Baz: {}, Qux: {} } }: the sequence adds
\* no key and no nesting.
C7_BarModel ==
    (doc = BarDoc /\ Transformed) =>
        Json(heap, ElementsObj) =
            << <<"Bar", << <<"Baz", <<>> >>, <<"Qux", <<>> >> >> >> >>

C7_Witness == doc = BarDoc /\ pc = "done" /\ Has(heap[ElementsObj], "Bar")

Nodes == 1..Len(doc.nodes)

LocalName(n) == doc.nodes[n].localName

ParentOf == [ n \in Nodes |-> doc.nodes[n].parent ]

\* The nodes strictly below n.
Below(n) == { m \in Nodes \ {n} : n \in AncestorsOrSelf(ParentOf, m) }

NamedKinds == {"element", "complexType", "simpleType"}

\* processNode has just been called on node n by the child loop of its
\* parent: obj is the context n is transformed into, outer the context that
\* was current when n was dispatched.
Entered(n) ==
    /\ pc = "walk"
    /\ Len(stack) >= 2
    /\ Top.pc = "enter"
    /\ Top.xmlNode = n

Outer == stack[Len(stack) - 1].obj

\* In the context current at dispatch, key k holds the context the node is
\* transformed into, which is new, empty and not the current context.
FreshUnder(k) ==
    /\ Has(heap[Outer], k)
    /\ Get(heap[Outer], k) = ObjVal(Top.obj)
    /\ Top.obj # Outer
    /\ heap[Top.obj] = <<>>
    /\ \A i \in 1..Len(heap) : \A j \in 1..Len(heap[i]) :
          heap[i][j].val = ObjVal(Top.obj) => (i = Outer /\ heap[i][j].key = k)

\* The node's own attribute a was copied into a context.
CopiedOwn(n, a) ==
    \E e \in Events : e.ev = "set" /\ e.by = "attr" /\ e.node = n /\ e.key = a

\* The transform of node n has just returned.
Completed(n) ==
    /\ trace # <<>>
    /\ trace[Len(trace)].ev = "exit"
    /\ trace[Len(trace)].node = n

\* The pre-hook invocations on node n (one when n has been dispatched).
PreOf(n) == { e \in Events : e.ev = "pre" /\ e.node = n }

\* Whatever set key k of context c is a node below n.
OnlyFromBelow(n, c, k) ==
    \A x \in Events : (x.ev = "set" /\ x.obj = c /\ x.key = k) => x.node \in Below(n)

\* C8 as stated: for every element, complexType or simpleType node with a
\* name, whatever its subtree, once its transform has returned the context
\* that was current at its dispatch holds a nested context under that name,
\* and that nested context has no key "name".
C8_NamedContextHasNoNameKey ==
    \A n \in Nodes :
        (LocalName(n) \in NamedKinds /\ getAttribute(doc, n, "name") # "" /\ Completed(n)) =>
            \A e \in PreOf(n) :
                LET k == getAttribute(doc, n, "name") IN
                /\ Has(heap[e.obj], k)
                /\ Get(heap[e.obj], k).t = "obj"
                /\ ~Has(heap[Get(heap[e.obj], k).id], "name")

\* C8 amended: when an element, complexType or simpleType node with a name is
\* dispatched, the current context gets a new, empty nested context under the
\* key equal to the name; when the transform of the node returns the key still
\* holds that context, the node's own name has not been copied into it, and
\* whatever set a key "name" in it is a node below.
C8_NameKeysFreshContext ==
    \A n \in Nodes :
        (LocalName(n) \in NamedKinds /\ getAttribute(doc, n, "name") # "") =>
            LET k == getAttribute(doc, n, "name") IN
            /\ Entered(n) => FreshUnder(k)
            /\ ~CopiedOwn(n, "name")
            /\ \A e \in PreOf(n) : OnlyFromBelow(n, e.val.id, "name")
            /\ Completed(n) =>
                  \A e \in PreOf(n) : Has(heap[e.obj], k) /\ Get(heap[e.obj], k) = e.val

\* A named element whose context got its other attribute, and a key "name"
\* from a node below.
C8_Witness ==
    /\ Transformed
    /\ \E n \in Nodes :
          /\ LocalName(n) \in NamedKinds
          /\ getAttribute(doc, n, "name") # ""
          /\ CopiedOwn(n, "type")
          /\ \E e \in PreOf(n) :
                /\ Has(heap[e.val.id], "name")
                /\ Has(heap[e.val.id], "type")

HasBoth(n) == getAttribute(doc, n, "name") # "" /\ getAttribute(doc, n, "ref") # ""

\* C9: an attribute node with ref and name gets its nested context under the
\* key ref, an element, complexType or simpleType node with both under the
\* key name; neither ref nor name of the node is copied into the nested
\* context.
C9_AttributeKeyedByRef ==
    \A n \in Nodes :
        (LocalName(n) \in NamedKinds \cup {"attribute"} /\ HasBoth(n)) =>
            LET k == IF LocalName(n) = "attribute"
                     THEN getAttribute(doc, n, "ref")
                     ELSE getAttribute(doc, n, "name")
            IN  /\ Entered(n) => FreshUnder(k)
                /\ \A e \in Events :
                      (e.ev = "set" /\ e.by = "pre" /\ e.node = n) => e.key = k
                /\ ~CopiedOwn(n, "name")
                /\ ~CopiedOwn(n, "ref")

C9_Witness ==
    /\ Transformed
    /\ \E n \in Nodes :
          /\ LocalName(n) = "attribute"
          /\ HasBoth(n)
          /\ getAttribute(doc, n, "ref") # getAttribute(doc, n, "name")
          /\ \E e \in Events :
                e.ev = "set" /\ e.by = "pre" /\ e.node = n
                /\ e.key = getAttribute(doc, n, "ref")

\* C10 as stated: for every extension node, once its transform has returned,
\* the context that was current at its dispatch has base equal to the node's
\* base attribute and properties holding another context, which has no key
\* base and which, not the current context, the children of the extension
\* were transformed into.
C10_ExtensionBaseAndProperties ==
    \A n \in Nodes : (LocalName(n) = "extension" /\ Completed(n)) =>
        \A e \in PreOf(n) :
            /\ Has(heap[e.obj], "base")
            /\ Get(heap[e.obj], "base") = StrVal(getAttribute(doc, n, "base"))
            /\ Has(heap[e.obj], "properties")
            /\ Get(heap[e.obj], "properties").t = "obj"
            /\ Get(heap[e.obj], "properties").id # e.obj
            /\ ~Has(heap[Get(heap[e.obj], "properties").id], "base")
            /\ \A x \in Events :
                  (x.ev \in {"pre", "set"} /\ x.node \in Nodes /\ ParentOf[x.node] = n) =>
                      x.obj # e.obj

\* C10 amended: when an extension node is dispatched, the current context
\* gets base equal to the node's base attribute and properties holding a new,
\* empty context that is not the current context; when the transform of the
\* node returns both keys still hold these values, the node's own base has not
\* been copied into properties, every node below the extension was transformed
\* into properties or a context created after it, and whatever set a key base
\* in properties is a node below.
C10_ExtensionDispatch ==
    \A n \in Nodes : LocalName(n) = "extension" =>
        /\ Entered(n) =>
              /\ FreshUnder("properties")
              /\ Has(heap[Outer], "base")
              /\ Get(heap[Outer], "base") = StrVal(getAttribute(doc, n, "base"))
        /\ ~CopiedOwn(n, "base")
        /\ \A e \in PreOf(n) :
              /\ e.val.id # e.obj
              /\ OnlyFromBelow(n, e.val.id, "base")
              /\ \A x \in Events :
                    (x.ev \in {"pre", "set", "enter"} /\ x.node \in Below(n)) =>
                        (x.obj # e.obj /\ x.obj >= e.val.id)
              /\ Completed(n) =>
                    /\ Has(heap[e.obj], "base")
                    /\ Get(heap[e.obj], "base") = StrVal(getAttribute(doc, n, "base"))
                    /\ Has(heap[e.obj], "properties")
                    /\ Get(heap[e.obj], "properties") = e.val

\* An extension whose properties got a key base from a node below, with base
\* set on the outer context.
C10_Witness ==
    /\ Transformed
    /\ \E n \in Nodes :
          /\ LocalName(n) = "extension"
          /\ \E e \in PreOf(n) :
                /\ Has(heap[e.obj], "base")
                /\ Has(heap[e.val.id], "base")

(***************************************************************************)
(* C11 - C14: dispatch of children without a rule, the emission step, the  *)
(* namespace bindings and the caller's config                              *)
(***************************************************************************)
\* A node the child loop of its parent finds no rule for.
Ruleless(n) == n # 1 /\ LocalName(n) \notin RuleNames

\* C11: a child whose local name has no dispatch rule triggers no pre hook and
\* no post hook and creates no key by itself, and is transformed into the
\* context that is current in its parent, whatever siblings came before it.
C11_RulelessChildFoldsIntoContext ==
    \A n \in Nodes : Ruleless(n) =>
        /\ PreOf(n) = {}
        /\ ~ \E e \in Events : e.ev = "post" /\ e.node = n
        /\ ~ \E e \in Events : e.ev = "set" /\ e.by = "pre" /\ e.node = n
        /\ Entered(n) => Top.obj = Outer

\* The key the rule of a named construct resolves: name || ref, for an
\* attribute ref || name.
ResolvedName(n) ==
    IF LocalName(n) = "attribute"
    THEN OrElse(getAttribute(doc, n, "ref"), getAttribute(doc, n, "name"))
    ELSE OrElse(getAttribute(doc, n, "name"), getAttribute(doc, n, "ref"))

\* The named constructs declared directly under the schema root.
TopLevelConstructs ==
    { n \in Nodes : /\ ParentOf[n] = 1
                    /\ LocalName(n) \in NamedKinds \cup {"attribute"}
                    /\ ResolvedName(n) # "" }

\* How many times the emission tool was started with --name k.
EmissionsOf(k) == Cardinality({ i \in 1..Len(emissions) : emissions[i].name = k })

\* C12: after a successful processSchema the emission tool has been invoked
\* exactly once for each top-level named construct, with its name, and for no
\* other key of the root context.
C12_EmitsTopLevelConstructsOnly ==
    (pc = "done" /\ ReadableSchema) =>
        /\ \A n \in TopLevelConstructs : EmissionsOf(ResolvedName(n)) = 1
        /\ \A i \in 1..Len(emissions) :
              emissions[i].name \in { ResolvedName(n) : n \in TopLevelConstructs }

\* The namespaces mappings the caller may have passed, given what the config
\* holds now.
GivenNamespaces ==
    { n \in NamespaceChoices :
        options.namespaces \in { n, BindXs(Options(Undefined, Undefined, n)).namespaces } }

\* C13: in every query of processSchema the prefix xs resolves to the XML
\* Schema namespace URI, whatever namespaces mapping the caller supplied (one
\* binding xs to another URI included), and every other prefix the caller
\* supplied resolves to the URI the caller gave; so the schema element of a
\* readable schema is always found and transformed.
C13_XsResolvesToSchemaNS ==
    /\ pc \in {"find", "walk"} =>
          /\ lookupNamespaceURI(Namespaces(options), "xs") = StrVal(XML_SCHEMA_NS)
          /\ \A n \in GivenNamespaces : \A i \in 1..Len(n.map) :
                n.map[i].key # "xs" =>
                    lookupNamespaceURI(Namespaces(options), n.map[i].key)
                        = StrVal(n.map[i].val)
    /\ (ReadableSchema /\ pc = "roots") => (results = <<1>> \/ Happened("transform"))
    /\ (ReadableSchema /\ Transformed) => Happened("transform")

\* A schema transformed under a config that binds a prefix of its own.
C13_Witness ==
    /\ pc = "walk"
    /\ Happened("enter")
    /\ options.namespaces.defined
    /\ Has(options.namespaces.map, "p")
    /\ lookupNamespaceURI(Namespaces(options), "p") = StrVal("urn:p")
    /\ lookupNamespaceURI(Namespaces(options), "xs") = StrVal(XML_SCHEMA_NS)

\* C14: processSchema has no side effect on the caller's config: no step
\* changes the config object, the namespaces mapping it holds included.
C14_ConfigUnchanged == [][options' = options]_vars

(***************************************************************************)
(* C15 - C17: the attribute copy and the order of the steps of a dispatch  *)
(***************************************************************************)
\* The suppression lists a caller may pass: none, an empty one, those of the
\* dispatch table.
SuppressionLists == { NoArray, Array({}), Array({"name", "ref"}), Array({"base"}) }

\* C15: the attribute copy is idempotent: for every context, node and
\* suppression list, copying twice in a row leaves the context (and every
\* other object) as copying once leaves it.  A context changes only while it
\* is the context of the innermost processNode, so every content a context
\* ever has is tried there, with every node of the document and every list.
C15_CopyIsIdempotent ==
    pc = "walk" =>
        \A n \in Nodes : \A ex \in SuppressionLists :
            LET once == addAllAttributes(heap, Top.obj, doc, n, ex).heap
                twice == addAllAttributes(once, Top.obj, doc, n, ex).heap
            IN  twice = once

\* The copy has just run on a node with an attribute it does not suppress;
\* running it again on the same context and node changes nothing.
C15_Witness ==
    /\ pc = "walk"
    /\ Top.pc = "loop"
    /\ CopiedOwn(Top.xmlNode, "type")
    /\ Has(heap[Top.obj], "type")
    /\ addAllAttributes(heap, Top.obj, doc, Top.xmlNode, Top.ignoreAttrs).heap = heap

\* The ignored-attribute list of the rule for the node's own local name.
OwnIgnoreAttrs(n) ==
    IF LocalName(n) \in RuleNames THEN processors(LocalName(n)).ignoreAttrs ELSE NoArray

\* C16: the suppression list used for a child is the ignored-attribute list
\* of the rule for the child's own local name, none for a child without a
\* rule, whatever rules matched earlier siblings; every attribute of the child
\* not in that list is set on the child's context.
C16_SuppressionListIsOwnRule ==
    \A n \in Nodes :
        /\ Entered(n) => Top.ignoreAttrs = OwnIgnoreAttrs(n)
        /\ (pc = "walk" /\ Len(stack) >= 2 /\ Top.xmlNode = n /\ Top.pc = "loop") =>
              \A i \in 1..Len(doc.nodes[n].attrs) :
                  Copied(OwnIgnoreAttrs(n), doc.nodes[n].attrs[i].name) =>
                      CopiedOwn(n, doc.nodes[n].attrs[i].name)

\* processNode has returned to processSchema.
WalkReturned == pc = "roots" /\ Happened("transform")

\* A node the child loop of its parent finds a rule for.
RuledChild(n) == n # 1 /\ LocalName(n) \in RuleNames

\* The events of node n and of the nodes below it.
InSubtree(n, x) ==
    x.ev \in {"pre", "post", "enter", "exit", "set"} /\ x.node \in {n} \cup Below(n)

\* C17: for every child that has a rule the pre hook is invoked with the outer
\* context and the child, then the child's subtree is transformed into the
\* context the hook returned, then the post hook, if the rule has one, is
\* invoked with the outer context and the child; no sibling is started before
\* the previous sibling has been finished.  Stated on the history of a walk
\* that has returned: the history only grows, so it holds every step taken.
C17_PreThenSubtreeThenPost ==
    WalkReturned =>
    \A i \in 1..Len(trace) :
        LET x == trace[i] IN
        \* the hook runs once, with the context its parent is transformed into
        /\ (x.ev = "pre" /\ RuledChild(x.node)) =>
              /\ \A j \in 1..Len(trace) :
                    (trace[j].ev = "pre" /\ trace[j].node = x.node) => j = i
              /\ \E p \in 1..(i - 1) :
                    /\ trace[p].ev = "enter"
                    /\ trace[p].node = ParentOf[x.node]
                    /\ trace[p].obj = x.obj
              /\ \A j \in 1..(i - 1) : ~InSubtree(x.node, trace[j])
        \* the subtree goes into what the hook returned, right after the hook
        /\ (x.ev = "enter" /\ RuledChild(x.node)) =>
              \E j \in 1..(i - 1) :
                  /\ trace[j].ev = "pre"
                  /\ trace[j].node = x.node
                  /\ trace[j].val = ObjVal(x.obj)
                  /\ \A m \in (j + 1)..(i - 1) :
                        trace[m].ev = "set" /\ trace[m].by = "pre" /\ trace[m].node = x.node
        \* a post hook follows the return of the subtree, with the outer context
        /\ (x.ev = "post" /\ RuledChild(x.node)) =>
              /\ i > 1
              /\ trace[i - 1].ev = "exit"
              /\ trace[i - 1].node = x.node
              /\ \E e \in PreOf(x.node) : e.obj = x.obj
        \* a sibling starts after the previous siblings have returned, and
        \* nothing of a returned subtree happens afterwards
        /\ (x.ev \in {"pre", "enter"} /\ x.node # 1) =>
              \A m \in Nodes :
                  (RuledChild(m) /\ m < x.node /\ ParentOf[m] = ParentOf[x.node]) =>
                      /\ \E k \in 1..(i - 1) : trace[k].ev = "exit" /\ trace[k].node = m
                      /\ \A k \in i..Len(trace) : ~InSubtree(m, trace[k])

\* Two siblings with rules, the first transformed into a context of its own
\* before the second was dispatched.
C17_Witness ==
    /\ Transformed
    /\ \E n \in Nodes : \E m \in Nodes :
          /\ n < m
          /\ RuledChild(n) /\ RuledChild(m)
          /\ ParentOf[n] = ParentOf[m]
          /\ \E e \in PreOf(n) : e.val.id # e.obj
          /\ PreOf(m) # {}

(***************************************************************************)
(* C18: the walk                                                           *)
(***************************************************************************)
\* The calls of processNode on node n.
EntersOf(n) == { i \in 1..Len(trace) : trace[i].ev = "enter" /\ trace[i].node = n }

ExitsOf(n) == { i \in 1..Len(trace) : trace[i].ev = "exit" /\ trace[i].node = n }

\* The nesting depth of node n (the document element has depth 1) and of the
\* tree.
Depth(n) == Cardinality(AncestorsOrSelf(ParentOf, n))

TreeDepth == CHOOSE k \in 1..Len(doc.nodes) : \A n \in Nodes : Depth(n) <= k

\* The recursion is never deeper than the node being visited is nested; when
\* the transform has returned, every element node has been visited exactly
\* once, siblings in document order, and nothing but the element nodes (a text
\* child adds no visit).
C18_VisitsEachNodeOnce ==
    /\ pc = "walk" =>
          /\ Len(stack) <= Depth(Top.xmlNode)
          /\ Len(stack) <= TreeDepth
    /\ WalkReturned =>
          /\ \A n \in Nodes : Cardinality(EntersOf(n)) = 1 /\ Cardinality(ExitsOf(n)) = 1
          /\ \A i \in 1..Len(trace) : \A j \in (i + 1)..Len(trace) :
                (/\ trace[i].ev = "enter" /\ trace[j].ev = "enter"
                 /\ ParentOf[trace[i].node] = ParentOf[trace[j].node]) =>
                    trace[i].node < trace[j].node
          /\ \A x \in Events : x.ev \in {"pre", "post", "enter", "exit"} => x.node \in Nodes

\* C18: for every schema tree the transform terminates, having visited every
\* element node exactly once, siblings in document order, never nested deeper
\* than the tree; text children are not dispatched.
C18_TransformTerminates ==
    /\ [] C18_VisitsEachNodeOnce
    /\ (pc = "walk") ~> (pc = "roots")

\* The walk of a tree with siblings and three levels below the root is over.
C18_Witness ==
    /\ doc = BarDoc
    /\ pc = "generated"
    /\ \A n \in Nodes : Cardinality(EntersOf(n)) = 1
    /\ TreeDepth = 4

(***************************************************************************)
(* C19 - C20: the keys of a context                                        *)
(***************************************************************************)
Keys(c) == { heap[c][i].key : i \in 1..Len(heap[c]) }

\* (a) the local names of the node's attributes its own rule does not
\* suppress.
AttrKeys(n) ==
    { doc.nodes[n].attrs[i].name :
        i \in { j \in 1..Len(doc.nodes[n].attrs) :
                  Copied(OwnIgnoreAttrs(n), doc.nodes[n].attrs[j].name) } }

\* (b) the key the dispatch of child m introduces: its resolved name, or the
\* fixed key properties or comment.
ChildKey(m) ==
    CASE LocalName(m) \in NamedKinds \cup {"attribute"} -> {ResolvedName(m)}
      [] LocalName(m) = "extension" -> {"properties"}
      [] LocalName(m) = "documentation" -> {"comment"}
      [] OTHER -> {}

ChildKeys(n) == UNION { ChildKey(m) : m \in { k \in Nodes : ParentOf[k] = n } }

\* No hook was invoked on a node without a rule.
NoStaleHook == \A m \in Nodes : Ruleless(m) => PreOf(m) = {}

\* C19 as stated: after the transform, the key set of every context created
\* for a node is the union of (a) the node's attributes that are not
\* suppressed and (b) the keys introduced by dispatching its children (a
\* resolved name, properties, comment), and nothing else.  Stated for the runs
\* in which every hook ran on a node of its own kind.
C19_KeysAreAttrsAndChildKeys ==
    (Transformed /\ NoStaleHook) =>
        \A n \in Nodes : RuledChild(n) =>
            \A e \in PreOf(n) :
                e.val.id # e.obj => Keys(e.val.id) = AttrKeys(n) \cup ChildKeys(n)

\* The keys a pre hook can set when invoked on node m.
PreKeys(m) ==
    { OrElse(getAttribute(doc, m, "name"), getAttribute(doc, m, "ref")),
      OrElse(getAttribute(doc, m, "ref"), getAttribute(doc, m, "name")),
      "base", "properties", "comment" }

\* processNode was called on node n with context c.
TransformedInto(n, c) == \E y \in Events : y.ev = "enter" /\ y.node = n /\ y.obj = c

\* C19 amended: at every moment the keys of a context are the keys assigned to
\* it, and each assignment is (a) the copy of an attribute of a node
\* transformed into that context, under the attribute's local name and with
\* its value, or (b) made by a pre hook invoked on a child of a node
\* transformed into that context, under the name the hook resolves from the
\* child's name and ref or under base, properties or comment; every attribute
\* other than name, ref and base of a node transformed into the context is a
\* key of it.
C19_KeysAreAssignedByWalk ==
    \A c \in 2..Len(heap) :
        /\ Keys(c) = { x.key : x \in { y \in Events : y.ev = "set" /\ y.obj = c } }
        /\ \A x \in Events : (x.ev = "set" /\ x.obj = c) =>
              /\ x.by \in {"attr", "pre"}
              /\ x.by = "attr" =>
                    /\ TransformedInto(x.node, c)
                    /\ \E i \in 1..Len(doc.nodes[x.node].attrs) :
                          /\ doc.nodes[x.node].attrs[i].name = x.key
                          /\ StrVal(doc.nodes[x.node].attrs[i].value) = x.val
              /\ x.by = "pre" =>
                    /\ x.node # 1
                    /\ TransformedInto(ParentOf[x.node], c)
                    /\ x.key \in PreKeys(x.node)
        /\ \A n \in Nodes : TransformedInto(n, c) =>
              \A i \in 1..Len(doc.nodes[n].attrs) :
                  doc.nodes[n].attrs[i].name \notin {"name", "ref", "base"} =>
                      doc.nodes[n].attrs[i].name \in Keys(c)

\* A context created for a node holds the attribute of a child without a
\* rule, which was transformed into it.
C19_Witness ==
    /\ Transformed
    /\ \E x \in Events :
          /\ x.ev = "set" /\ x.by = "attr"
          /\ x.obj > ElementsObj
          /\ Ruleless(x.node)
          /\ PreOf(x.node) = {}
          /\ x.key \in Keys(x.obj)

\* C20: during the construction of the model every key of every context is
\* written at most once: no assignment is made to a key the context already
\* has.
C20_KeysWrittenOnce ==
    \A x \in Events : x.ev = "set" => ~x.had

(***************************************************************************)
(* C21 - C22: siblings under one key, constructs without a name            *)
(***************************************************************************)
KeyedKinds == NamedKinds \cup {"attribute"}

\* n is an earlier sibling of m and the rules of both resolve the same key.
SameKeySiblings(n, m) ==
    /\ n < m
    /\ RuledChild(n) /\ RuledChild(m)
    /\ LocalName(n) \in KeyedKinds /\ LocalName(m) \in KeyedKinds
    /\ ParentOf[n] = ParentOf[m]
    /\ ResolvedName(n) = ResolvedName(m)

\* C21: when two siblings resolve to the same key the transform raises no
\* error and goes on; when the transform of the later one returns, the key
\* holds the context built for the later one, a new object that holds only
\* what the later sibling and the nodes below it put there, and the context
\* built for the earlier one is held by no key any more.
C21_LaterSiblingReplacesEarlier ==
    \A m \in Nodes : (Completed(m) /\ m # 1) =>
        \A n \in Nodes : SameKeySiblings(n, m) =>
            \A en \in PreOf(n) : \A em \in PreOf(m) :
                /\ ~HasThrown
                /\ pc = "walk"
                /\ en.obj = em.obj
                /\ en.val.id # em.val.id
                /\ Get(heap[em.obj], ResolvedName(m)) = em.val
                /\ \A x \in Events :
                      (x.ev = "set" /\ x.obj = em.val.id) => x.node \in {m} \cup Below(m)
                /\ \A c \in 1..Len(heap) : \A i \in 1..Len(heap[c]) :
                      heap[c][i].val # en.val

\* The later of two same-key siblings has returned; the earlier one had put
\* something in its context.
C21_Witness ==
    \E m \in Nodes : \E n \in Nodes :
        /\ Completed(m)
        /\ m # 1
        /\ SameKeySiblings(n, m)
        /\ \E en \in PreOf(n) : \E em \in PreOf(m) :
              /\ heap[en.val.id] # <<>>
              /\ Get(heap[em.obj], ResolvedName(m)) = em.val

\* A keyed construct with neither a name nor a ref attribute.
Anonymous(n) ==
    /\ RuledChild(n)
    /\ LocalName(n) \in KeyedKinds
    /\ getAttribute(doc, n, "name") = ""
    /\ getAttribute(doc, n, "ref") = ""

\* C22 as stated: for a keyed construct with neither name nor ref the
\* transform raises no error, does not skip the node, and stores the node's
\* nested context in the current context under the key undefined.
C22_AnonymousUnderUndefinedKey ==
    \A n \in Nodes : (Anonymous(n) /\ Entered(n)) =>
        /\ ~HasThrown
        /\ FreshUnder("undefined")

\* C22 amended: for a keyed construct with neither name nor ref the transform
\* raises no error, does not skip the node, and stores the node's new, empty
\* nested context in the current context under the empty string, the one key
\* all such siblings share (the later replacing the earlier).
C22_AnonymousUnderEmptyKey ==
    \A n \in Nodes : (Anonymous(n) /\ Entered(n)) =>
        /\ ~HasThrown
        /\ PreOf(n) # {}
        /\ FreshUnder("")
        /\ Cardinality({ i \in 1..Len(heap[Outer]) : heap[Outer][i].key = "" }) = 1

\* The second of two anonymous siblings has been dispatched into the key the
\* first one had.
C22_Witness ==
    \E m \in Nodes : \E n \in Nodes :
        /\ Entered(m)
        /\ Anonymous(m) /\ Anonymous(n)
        /\ n < m
        /\ ParentOf[n] = ParentOf[m]
        /\ \E en \in PreOf(n) : en.obj = Outer /\ en.key = ""
        /\ FreshUnder("")

(***************************************************************************)
(* C23: documentation                                                      *)
(***************************************************************************)
Documentation(n) == RuledChild(n) /\ LocalName(n) = "documentation"

RefsTo(c) ==
    { r \in UNION { { <<p, i>> : i \in 1..Len(heap[p]) } : p \in 1..Len(heap) } :
        heap[r[1]][r[2]].val = ObjVal(c) }

\* The assignments that stored a reference to context c.
CreationsOf(c) == { i \in 1..Len(trace) : trace[i].ev = "set" /\ trace[i].val = ObjVal(c) }

\* C24: in every state of the transform the model is a tree of contexts.  A
\* nested context is held by at most one key of one context, and that context
\* is an older one, so no context is reached by two paths or by a cycle; a
\* context is new and empty when a node is dispatched into it, and the
\* contexts of the calls in progress are each held by exactly one key.  Every
\* nested context was stored by exactly one pre-hook invocation, for one node;
\* one held by no key has been replaced under its key by a later assignment.
C24_ModelIsTree ==
    /\ Len(heap) >= ElementsObj => RefsTo(ElementsObj) = { <<SchemaObj, 1>> }
    /\ \A c \in (ElementsObj + 1)..Len(heap) :
          /\ Cardinality(RefsTo(c)) <= 1
          /\ \A r \in RefsTo(c) : r[1] >= ElementsObj /\ r[1] < c
    /\ pc = "walk" =>
          /\ \A k \in 1..Len(stack) : Cardinality(RefsTo(stack[k].obj)) = 1
          /\ (Len(stack) >= 2 /\ Top.pc = "enter" /\ Top.obj # Outer) => heap[Top.obj] = <<>>
    /\ WalkReturned =>
          \A c \in (ElementsObj + 1)..Len(heap) :
              /\ Cardinality(CreationsOf(c)) = 1
              /\ \A i \in CreationsOf(c) :
                    /\ trace[i].by = "pre"
                    /\ ~ \E j \in 1..(i - 1) : trace[j].obj = c
                    /\ RefsTo(c) = {} =>
                          \E j \in (i + 1)..Len(trace) :
                              /\ trace[j].ev = "set"
                              /\ trace[j].obj = trace[i].obj
                              /\ trace[j].key = trace[i].key

\* A context nested in a nested context, each held by one key.
C24_Witness ==
    /\ WalkReturned
    /\ \E c \in (ElementsObj + 1)..Len(heap) :
          \E r \in RefsTo(c) : r[1] > ElementsObj /\ Cardinality(RefsTo(r[1])) = 1

(***************************************************************************)
(* C25: the input is only read                                             *)
(***************************************************************************)
\* C25: every step of the transform leaves the input unchanged: once the
\* document is parsed no step changes a node's name, attributes, text, parent
\* or the order of the nodes, and the file is never written.  The dispatch
\* table is the operator processors, the same in every state.
C25_InputUnchanged ==
    [][ /\ file' = file
        /\ pc \in {"find", "roots", "walk", "generated", "done"} => doc' = doc ]_vars

\* A walk over a document with attributes and children has returned, the
\* document being what the parser built.
C25_Witness ==
    /\ WalkReturned
    /\ doc = file.dom
    /\ Len(doc.nodes) >= 3
    /\ \E x \in Events : x.ev = "set" /\ x.by = "attr"

(***************************************************************************)
(* C26: prefixes without a binding                                         *)
(***************************************************************************)
\* The prefixes a query may ask the resolver about.
Prefixes == {"xs", "p", "q"} \cup ObjectPrototypeKeys

\* A query is being evaluated or about to be.
Querying == pc \in {"find", "walk"}

C27_EmissionAfterTransform ==
    /\ (emissions # <<>> \/ Happened("emit") \/ pc \in {"generated", "done"}) =>
          /\ results = <<>>
          /\ stack = <<>>
          /\ pc \in {"generated", "done"}
          /\ ~HasThrown
          /\ Happened("transform") => Cardinality(ExitsOf(1)) = 1
          /\ \A i \in 1..Len(trace) : \A j \in (i + 1)..Len(trace) :
                trace[i].ev = "emit" => trace[j].ev = "emit"
    /\ (pc = "threw" \/ HasThrown) => (emissions = <<>> /\ ~Happened("emit"))

\* Emission calls were made after a transform that had returned.
C27_Witness ==
    /\ pc = "done"
    /\ emissions # <<>>
    /\ Happened("transform")
    /\ trace[Len(trace)].ev = "emit"


(***************************************************************************)
(* C28: the emission calls are not awaited                                 *)
(***************************************************************************)
Settled(i) == emissions[i].status \in {"completed", "failed"}

\* C28: processSchema starts one emission call for each key of the root
\* context, in the order of the keys, and returns true without waiting:
\* whatever emission calls have completed, failed or are still running, it is
\* not held up and its result is true.
C28_ReturnsWithoutAwaiting ==
    /\ pc \in {"generated", "done"} =>
          /\ Len(emissions) = Len(heap[ElementsObj])
          /\ \A i \in 1..Len(emissions) : emissions[i].name = heap[ElementsObj][i].key
    /\ pc = "generated" => (ENABLED ReturnTrue /\ outcome = Pending)
    /\ pc = "done" => outcome = Returned

\* processSchema has returned true while one emission call has failed and
\* another is still running.
C28_Witness ==
    /\ pc = "done"
    /\ outcome = Returned
    /\ \E i \in 1..Len(emissions) : \E j \in 1..Len(emissions) :
          emissions[i].status = "failed" /\ emissions[j].status = "started"


(***************************************************************************)
(* C29: a document without a schema element                                *)
(***************************************************************************)
\* The document has no document element that is a schema element of the XML
\* Schema namespace.
NoSchemaElement(d) ==
    \/ Len(d.nodes) = 0
    \/ d.nodes[1].localName # "schema"
    \/ d.rootNS # XML_SCHEMA_NS

Parsed == pc \in {"roots", "walk", "generated", "done"}

\* C29: when the parsed document has no top-level schema element of the XML
\* Schema namespace the transformer is never invoked, the model is
\* { elements: {} }, no emission call is made and processSchema returns true.
C29_NoSchemaElementStillSucceeds ==
    (Parsed /\ NoSchemaElement(doc)) =>
        /\ results = <<>>
        /\ pc # "walk"
        /\ ~Happened("transform") /\ ~Happened("enter")
        /\ Json(heap, SchemaObj) = << <<"elements", <<>> >> >>
        /\ emissions = <<>> /\ ~Happened("emit")
        /\ ~HasThrown
        /\ pc = "done" => outcome = Returned

\* processSchema has returned true for a well-formed document whose document
\* element is a schema element of another namespace.
C29_Witness ==
    /\ pc = "done"
    /\ outcome = Returned
    /\ doc \in NoSchemaDocs
    /\ doc.nodes[1].localName = "schema"
    /\ heap[ElementsObj] = <<>>

(***************************************************************************)
(* C30: isEmptyString                                                      *)
(***************************************************************************)
\* C30: isEmptyString(x) is true exactly when x is not a string or is a
\* string with no character that is not white space; stated of the values
\* processSchema applies it to.
C30_EmptyIffNothingButWhitespace ==
    /\ isEmptyString(options.schemaURL) <=> ~Supplied(options.schemaURL)
    /\ isEmptyString(options.schemaFile) <=> ~Supplied(options.schemaFile)
    /\ isEmptyString(xmlString) <=> ~Supplied(xmlString)

====
